---- MODULE Spec2Model ----
(***************************************************************************)
(* The dependencies table of the package index, schema 1.4                 *)
(* (AppInstallerRepositoryCore/Microsoft/Schema/1_4/DependenciesTable.cpp).*)
(* The store is the SQLite database the table lives in: the catalog, the   *)
(* rows of "dependencies", and the rows of the ids, versions and manifest  *)
(* tables its three reference columns point into.                          *)
(***************************************************************************)
EXTENDS Integers, Sequences, FiniteSets, TLC

\* ------------------------------------------------------------------ bounds
\* Most dependency declarations (over all installers) of one manifest.
MaxDeclarations == 2
\* Largest rowid a table hands out before the model stops inserting into it.
MaxRowId == 2
\* A storage failure is injected at the k-th Execute or Commit of an
\* AddDependencies, UpdateDependencies or RemoveDependencies call, k <= MaxFailAt.
MaxFailAt == 2

\* ------------------------------------------------------------ input domains
ManifestRowIds == {1, 2}
PackageIdentifiers == {"P1", "P2"}
VersionStrings == {"1.0", "2.0"}
\* std::string order of the version strings the model uses.
StringOrder == <<"", "1.0", "2.0">>

\* std::optional<T>: <<>> is nullopt (and SQL NULL), <<x>> holds x.
None == <<>>
Some(x) == <<x>>

\* Manifest::Dependency of type Package: Id and optional MinVersion.
Dependency(id, minVersion) == [Id |-> id, MinVersion |-> minVersion]

\* The declarations manifests are built from: a package required at either of
\* two minimum versions, and a package required at any version.
Declarations ==
    {Dependency("P1", Some(v)) : v \in VersionStrings} \cup {Dependency("P2", None)}

RECURSIVE SeqsUpTo(_, _)
SeqsUpTo(S, n) ==
    IF n = 0 THEN {<<>>}
    ELSE LET shorter == SeqsUpTo(S, n - 1)
         IN  shorter \cup {Append(s, x) : s \in {t \in shorter : Len(t) = n - 1}, x \in S}

\* The package dependencies of a manifest, in the order ApplyToType visits
\* them over manifest.Installers.
Manifests == SeqsUpTo(Declarations, MaxDeclarations)

\* Manifests in which a minimum version can also be the empty string.
DeclarationsWithEmpty ==
    {Dependency("P1", Some("")), Dependency("P1", None), Dependency("P1", Some("1.0"))}

ManifestsWithEmpty == SeqsUpTo(DeclarationsWithEmpty, MaxDeclarations)

FailPoints == 0..MaxFailAt

\* The ids table with every package of the model registered.
IdRows == {[rowid |-> 1, id |-> "P1"], [rowid |-> 2, id |-> "P2"]}

\* ------------------------------------------------------------------- state
VARIABLES
    schema,        \* sqlite_master: names of the catalog objects of this table
    dependencies,  \* rows of [dependencies]: rowid, manifest, min_version, package_id
    versions,      \* rows of [versions]: rowid, version
    ids,           \* rows of [ids]: rowid, id
    manifests,     \* rowids of [manifest]
    call,          \* the last call made on the table: its name if it succeeded, its error if not
    txn,           \* the UpdateDependencies whose savepoint is open, statement by statement, or None
    observed       \* what a reader on another connection last read while that savepoint was open, or None

vars == <<schema, dependencies, versions, ids, manifests, call, txn, observed>>

s_DependenciesTable_Table_Name == "dependencies"
s_DependenciesTable_Index_Name == "dependencies_pkindex"
s_DependenciesTable_Manifest_Column_Name == "manifest"
s_DependenciesTable_MinVersion_Column_Name == "min_version"
s_DependenciesTable_PackageId_Column_Name == "package_id"
dependencyIndexByVersionId == "dependencies_version_id_index"
dependencyIndexByPackageId == "dependencies_package_id_index"

\* ---------------------------------------------------------------- helpers
MaxOf(S) == CHOOSE x \in S : \A y \in S : y <= x

\* rowid of a new row of a table with an INTEGER PRIMARY KEY: largest + 1.
NextRowId(rows) == IF rows = {} THEN 1 ELSE MaxOf({r.rowid : r \in rows}) + 1

\* DependencyTableRow::operator< : absent version compares as "".
VersionOrEmpty(v) == IF v = None THEN "" ELSE v[1]

StrRank(s) == CHOOSE i \in 1..Len(StringOrder) : StringOrder[i] = s

\* operator< that leaves the version out of the comparison.
RowLess_IgnoresVersion(a, b) ==
    \/ a.m_packageRowId < b.m_packageRowId
    \/ a.m_packageRowId = b.m_packageRowId /\ a.m_manifestRowId < b.m_manifestRowId

RowLess(a, b) ==
    \/ a.m_packageRowId < b.m_packageRowId
    \/ /\ a.m_packageRowId = b.m_packageRowId
       /\ \/ a.m_manifestRowId < b.m_manifestRowId
          \/ /\ a.m_manifestRowId = b.m_manifestRowId
             /\ StrRank(VersionOrEmpty(a.m_version)) < StrRank(VersionOrEmpty(b.m_version))

\* std::set<DependencyTableRow> as the sequence its iteration yields.
SetFind(set, row) ==
    \E i \in 1..Len(set) : ~RowLess(set[i], row) /\ ~RowLess(row, set[i])

SetEmplace(set, row) ==
    IF SetFind(set, row) THEN set
    ELSE LET before == SelectSeq(set, LAMBDA r : RowLess(r, row))
             after == SelectSeq(set, LAMBDA r : RowLess(row, r))
         IN  before \o <<row>> \o after

DependencyTableRow(packageRowId, manifestRowId, version) ==
    [m_packageRowId |-> packageRowId, m_manifestRowId |-> manifestRowId, m_version |-> version]

\* IdTable::SelectIdByValue
SelectIdByValue(idRows, id) ==
    IF \E r \in idRows : r.id = id
    THEN Some((CHOOSE r \in idRows : r.id = id).rowid)
    ELSE None

\* GetAndLinkDependencies: the rows to store and the declarations whose
\* package has no row in the ids table.
RECURSIVE GetAndLinkDependencies(_, _, _)
GetAndLinkDependencies(idRows, manifest, manifestRowId) ==
    IF manifest = <<>> THEN [dependencies |-> <<>>, missingPackageNodes |-> <<>>]
    ELSE LET n == Len(manifest)
             sofar == GetAndLinkDependencies(idRows, SubSeq(manifest, 1, n - 1), manifestRowId)
             dependency == manifest[n]
             packageRowId == SelectIdByValue(idRows, dependency.Id)
         IN  IF packageRowId = None
             THEN [sofar EXCEPT !.missingPackageNodes = Append(@, dependency)]
             ELSE [sofar EXCEPT !.dependencies =
                       SetEmplace(@, DependencyTableRow(packageRowId[1], manifestRowId,
                                                        dependency.MinVersion))]

\* GetAndLinkDependencies on every manifest of the model, worked out once.
Linked ==
    [idRows \in SUBSET IdRows, manifest \in Manifests \cup ManifestsWithEmpty,
     manifestRowId \in ManifestRowIds |->
        GetAndLinkDependencies(idRows, manifest, manifestRowId)] @@ <<>>

\* ---------------------------------------------------- statements in a scope
\* A connection inside a savepoint: the tables as written so far, the number
\* of write statements left before the injected failure (0: none), and the
\* error that ended the call ("" while it runs).
Connection(db, failAt) ==
    [schema |-> db.schema, dependencies |-> db.dependencies, versions |-> db.versions,
     fail |-> failAt, error |-> ""]

Failed(c) == c.error # ""

\* One Execute or Commit of this file reaches the storage engine.
Write(c) ==
    IF c.fail = 1 THEN [c EXCEPT !.error = "StorageFailure", !.fail = 0]
    ELSE IF c.fail = 0 THEN c
    ELSE [c EXCEPT !.fail = @ - 1]

Exists(c) == s_DependenciesTable_Table_Name \in c.schema

\* builder.Prepare on a statement that names the dependencies table.
Prepare(c) ==
    IF Failed(c) \/ Exists(c) THEN c ELSE [c EXCEPT !.error = "SqlError"]

\* VersionTable::EnsureExists
EnsureExists(c, version) ==
    IF Failed(c) \/ \E r \in c.versions : r.version = version THEN c
    ELSE [c EXCEPT !.versions = @ \cup {[rowid |-> NextRowId(@), version |-> version]}]

VersionRowId(c, version) == (CHOOSE r \in c.versions : r.version = version).rowid

\* ExecuteInsert under a unique index that also covers min_version.
ExecuteInsert_IndexCoversVersion(c, manifest, min_version, package_id) ==
    IF Failed(c) THEN c
    ELSE LET w == Write(c)
         IN  IF Failed(w) THEN w
             ELSE IF /\ s_DependenciesTable_Index_Name \in w.schema
                     /\ \E e \in w.dependencies :
                            /\ e.manifest = manifest
                            /\ e.package_id = package_id
                            /\ e.min_version = min_version
             THEN [w EXCEPT !.error = "ConstraintViolation"]
             ELSE [w EXCEPT !.dependencies = @ \cup
                       {[rowid |-> NextRowId(@), manifest |-> manifest,
                         min_version |-> min_version, package_id |-> package_id]}]

\* ExecuteInsert with the manifest and package row ids bound to each other's column.
ExecuteInsert_ColumnsSwapped(c, manifest, min_version, package_id) ==
    IF Failed(c) THEN c
    ELSE LET w == Write(c)
         IN  IF Failed(w) THEN w
             ELSE IF /\ s_DependenciesTable_Index_Name \in w.schema
                     /\ \E e \in w.dependencies : e.manifest = package_id /\ e.package_id = manifest
             THEN [w EXCEPT !.error = "ConstraintViolation"]
             ELSE [w EXCEPT !.dependencies = @ \cup
                       {[rowid |-> NextRowId(@), manifest |-> package_id,
                         min_version |-> min_version, package_id |-> manifest]}]

\* insert.Execute of InsertManifestDependencies, under the unique index on
\* (manifest, package_id).
ExecuteInsert(c, manifest, min_version, package_id) ==
    IF Failed(c) THEN c
    ELSE LET w == Write(c)
         IN  IF Failed(w) THEN w
             ELSE IF /\ s_DependenciesTable_Index_Name \in w.schema
                     /\ \E e \in w.dependencies : e.manifest = manifest /\ e.package_id = package_id
             THEN [w EXCEPT !.error = "ConstraintViolation"]
             ELSE [w EXCEPT !.dependencies = @ \cup
                       {[rowid |-> NextRowId(@), manifest |-> manifest,
                         min_version |-> min_version, package_id |-> package_id]}]

RECURSIVE InsertLoop(_, _)
InsertLoop(c, rows) ==
    IF rows = <<>> \/ Failed(c) THEN c
    ELSE LET dep == Head(rows)
             bound == IF dep.m_version # None THEN EnsureExists(c, dep.m_version[1]) ELSE c
             min_version == IF dep.m_version # None /\ ~Failed(bound)
                            THEN Some(VersionRowId(bound, dep.m_version[1]))
                            ELSE None
         IN  InsertLoop(ExecuteInsert(bound, dep.m_manifestRowId, min_version, dep.m_packageRowId),
                        Tail(rows))

InsertManifestDependencies(c, dependenciesTableRows) ==
    InsertLoop(Prepare(c), dependenciesTableRows)

\* savepoint.Commit()
Commit(c) == IF Failed(c) THEN c ELSE Write(c)

\* ThrowOnMissingPackageNodes that never throws.
ThrowOnMissingPackageNodes_Never(c, missingPackageNodes) == c

\* ThrowOnMissingPackageNodes
ThrowOnMissingPackageNodes(c, missingPackageNodes) ==
    IF missingPackageNodes # <<>> THEN [c EXCEPT !.error = "MissingPackage"] ELSE c

\* SQLite::Savepoint at scope exit: the work of the scope if it was committed,
\* the store as it was when the savepoint was created otherwise.
Savepoint(db, c, committed) ==
    IF committed /\ ~Failed(c)
    THEN [result |-> "ok", schema |-> c.schema, dependencies |-> c.dependencies, versions |-> c.versions]
    ELSE [result |-> IF Failed(c) THEN c.error ELSE "ok",
          schema |-> db.schema, dependencies |-> db.dependencies, versions |-> db.versions]

\* ------------------------------------------------------------------- reads
\* GetDependenciesByManifestRowId: [dependencies] JOIN [versions].
GetDependenciesByManifestRowId(depRows, versionRows, manifestRowId) ==
    {<<p[1].package_id, p[2].version>> :
        p \in {q \in depRows \X versionRows :
                  /\ Some(q[2].rowid) = q[1].min_version
                  /\ q[1].manifest = manifestRowId}}

\* GetDependentsById: [dependencies] JOIN [versions] JOIN [ids]. The vector
\* it returns, as the number of times each pair is in it.
GetDependentsById(depRows, versionRows, idRows, packageId) ==
    LET joined == {q \in depRows \X versionRows \X idRows :
                      /\ q[1].min_version = Some(q[2].rowid)
                      /\ q[3].rowid = q[1].package_id
                      /\ q[3].id = packageId}
        Pair(q) == <<q[1].manifest, q[2].version>>
    IN  [pair \in {Pair(q) : q \in joined} |-> Cardinality({q \in joined : Pair(q) = pair})]

\* InvalidRows without the test on the manifest table.
InvalidRows_ManifestNotTested(depRows, versionRows, idRows, manifestRows) ==
    {dep \in depRows :
        \/ ~\E v \in versionRows : dep.min_version = Some(v.rowid)
        \/ ~\E i \in idRows : dep.package_id = i.rowid}

\* The rows the consistency query selects: an edge whose left outer join
\* against the ids, manifest or versions table found no row.
InvalidRows(depRows, versionRows, idRows, manifestRows) ==
    {dep \in depRows :
        \/ ~\E m \in manifestRows : dep.manifest = m
        \/ ~\E v \in versionRows : dep.min_version = Some(v.rowid)
        \/ ~\E i \in idRows : dep.package_id = i.rowid}

\* The rowids of the selected rows in the order select.Step() yields them;
\* the query has no ORDER BY and the table is scanned by rowid.
RECURSIVE SelectedRowIds(_)
SelectedRowIds(rows) ==
    IF rows = {} THEN <<>>
    ELSE LET first == CHOOSE x \in rows : \A y \in rows : x.rowid <= y.rowid
         IN  <<first.rowid>> \o SelectedRowIds(rows \ {first})

\* while (select.Step()): result = false, break unless log, log the rowid.
\* scan holds result, the rowids logged and the number of rows stepped to.
RECURSIVE SelectStepLoop(_, _, _)
SelectStepLoop(select, log, scan) ==
    IF select = <<>> THEN scan
    ELSE LET stepped == [scan EXCEPT !.result = FALSE, !.stepped = @ + 1]
         IN  IF ~log THEN stepped
             ELSE SelectStepLoop(Tail(select), log,
                                 [stepped EXCEPT !.logged = @ \cup {Head(select)}])

\* DependenciesTableCheckConsistency whose loop breaks before it sets result.
DependenciesTableCheckConsistency_BreaksBeforeResult(db, idRows, manifestRows, log) ==
    IF s_DependenciesTable_Table_Name \notin db.schema
    THEN [result |-> TRUE, logged |-> {}, stepped |-> 0]
    ELSE LET invalid == InvalidRows(db.dependencies, db.versions, idRows, manifestRows)
         IN  [result |-> invalid = {} \/ ~log,
              logged |-> IF log THEN {dep.rowid : dep \in invalid} ELSE {},
              stepped |-> IF log THEN Cardinality(invalid)
                          ELSE IF invalid = {} THEN 0 ELSE 1]

\* DependenciesTableCheckConsistency: the result, the rowids it logs and the
\* number of rows the scan stepped to.
DependenciesTableCheckConsistency(db, idRows, manifestRows, log) ==
    IF s_DependenciesTable_Table_Name \notin db.schema
    THEN [result |-> TRUE, logged |-> {}, stepped |-> 0]
    ELSE LET invalid == InvalidRows(db.dependencies, db.versions, idRows, manifestRows)
         IN  SelectStepLoop(SelectedRowIds(invalid), log,
                            [result |-> TRUE, logged |-> {}, stepped |-> 0])

dependenciesColumns ==
    {s_DependenciesTable_MinVersion_Column_Name,
     s_DependenciesTable_Manifest_Column_Name,
     s_DependenciesTable_PackageId_Column_Name}

ColumnValue(dep, valueName) ==
    CASE valueName = s_DependenciesTable_MinVersion_Column_Name -> dep.min_version
      [] valueName = s_DependenciesTable_Manifest_Column_Name -> Some(dep.manifest)
      [] valueName = s_DependenciesTable_PackageId_Column_Name -> Some(dep.package_id)

\* Names a caller can pass that are not reference columns of the table.
OtherColumnNames == {"rowid", "version", "id", ""}

\* IsValueReferenced that prepares its statement before it tests the column name.
IsValueReferenced_PreparesFirst(db, valueName, valueRowId) ==
    IF s_DependenciesTable_Table_Name \notin db.schema
    THEN {[error |-> "SqlError", rowid |-> None]}
    ELSE IF valueName \notin dependenciesColumns
    THEN {[error |-> "InvalidTableColumn", rowid |-> None]}
    ELSE LET matching == {dep \in db.dependencies : ColumnValue(dep, valueName) = Some(valueRowId)}
         IN  IF matching = {} THEN {[error |-> "", rowid |-> None]}
             ELSE {[error |-> "", rowid |-> Some(dep.rowid)] : dep \in matching}

\* IsValueReferenced that looks in the manifest column whatever column is named.
IsValueReferenced_ManifestColumn(db, valueName, valueRowId) ==
    LET matching == {dep \in db.dependencies : dep.manifest = valueRowId}
    IN  IF matching = {} THEN {[error |-> "", rowid |-> None]}
        ELSE {[error |-> "", rowid |-> Some(dep.rowid)] : dep \in matching}

\* IsValueReferenced: every answer the query (LIMIT 1, no order) can give.
IsValueReferenced(db, valueName, valueRowId) ==
    IF valueName \notin dependenciesColumns
    THEN {[error |-> "InvalidTableColumn", rowid |-> None]}
    ELSE IF s_DependenciesTable_Table_Name \notin db.schema
    THEN {[error |-> "SqlError", rowid |-> None]}
    ELSE LET matching == {dep \in db.dependencies : ColumnValue(dep, valueName) = Some(valueRowId)}
         IN  IF matching = {} THEN {[error |-> "", rowid |-> None]}
             ELSE {[error |-> "", rowid |-> Some(dep.rowid)] : dep \in matching}

\* ------------------------------------------------------------- operations
Store == [schema |-> schema, dependencies |-> dependencies, versions |-> versions]

CreateOn(db) ==
    LET c0 == Connection(db, 0)
        c1 == IF Exists(c0) THEN [c0 EXCEPT !.error = "SqlError"] ELSE Write(c0)
        c2 == IF Failed(c1) THEN c1 ELSE [c1 EXCEPT !.schema = @ \cup {s_DependenciesTable_Table_Name}]
        c3 == IF Failed(c2) THEN c2 ELSE Write(c2)
        c4 == IF Failed(c3) THEN c3 ELSE [c3 EXCEPT !.schema = @ \cup {s_DependenciesTable_Index_Name}]
        c5 == IF Failed(c4) THEN c4 ELSE Write(c4)
        c6 == IF Failed(c5) THEN c5 ELSE [c5 EXCEPT !.schema = @ \cup {dependencyIndexByVersionId}]
        c7 == IF Failed(c6) THEN c6 ELSE Write(c6)
        c8 == IF Failed(c7) THEN c7 ELSE [c7 EXCEPT !.schema = @ \cup {dependencyIndexByPackageId}]
    IN  Savepoint(db, Commit(c8), TRUE)

\* AddDependencies whose inserts run outside the savepoint.
AddDependenciesOn_NoSavepoint(db, idRows, manifest, manifestRowId, failAt) ==
    LET linked == Linked[idRows, manifest, manifestRowId]
        c0 == ThrowOnMissingPackageNodes(Connection(db, failAt), linked.missingPackageNodes)
        c1 == IF Failed(c0) THEN c0 ELSE InsertManifestDependencies(c0, linked.dependencies)
    IN  [result |-> IF Failed(c1) THEN c1.error ELSE "ok",
         schema |-> c1.schema, dependencies |-> c1.dependencies, versions |-> c1.versions]

AddDependenciesOn(db, idRows, manifest, manifestRowId, failAt) ==
    LET linked == Linked[idRows, manifest, manifestRowId]
        c0 == ThrowOnMissingPackageNodes(Connection(db, failAt), linked.missingPackageNodes)
    IN  IF Failed(c0) \/ Len(linked.dependencies) = 0
        THEN Savepoint(db, c0, FALSE)
        ELSE Savepoint(db, Commit(InsertManifestDependencies(c0, linked.dependencies)), TRUE)

\* RemoveDependenciesByRowIds: a nested savepoint around one DELETE per row.
RECURSIVE DeleteLoop(_, _)
DeleteLoop(c, rows) ==
    IF rows = <<>> \/ Failed(c) THEN c
    ELSE LET row == Head(rows)
             w == Write(c)
         IN  DeleteLoop(IF Failed(w) THEN w
                        ELSE [w EXCEPT !.dependencies =
                                 {e \in @ : ~(e.package_id = row.m_packageRowId
                                              /\ e.manifest = row.m_manifestRowId)}],
                        Tail(rows))

\* RemoveDependenciesByRowIds whose DELETE tests the package_id column only.
RemoveDependenciesByRowIds_AnyManifest(c, dependencyTableRows) ==
    IF dependencyTableRows = <<>> \/ Failed(c) THEN c
    ELSE LET w == Write(Prepare(c))
             gone == {dependencyTableRows[i].m_packageRowId : i \in DOMAIN dependencyTableRows}
         IN  IF Failed(w) THEN w
             ELSE Commit([w EXCEPT !.dependencies = {e \in @ : e.package_id \notin gone}])

RemoveDependenciesByRowIds(c, dependencyTableRows) ==
    IF dependencyTableRows = <<>> \/ Failed(c) THEN c
    ELSE Commit(DeleteLoop(Prepare(c), dependencyTableRows))

\* std::set<std::pair<rowid_t, NormalizedString>> as the sequence its iteration yields.
PairLess(a, b) == a[1] < b[1] \/ (a[1] = b[1] /\ StrRank(a[2]) < StrRank(b[2]))

RECURSIVE SortPairs(_)
SortPairs(S) ==
    IF S = {} THEN <<>>
    ELSE LET least == CHOOSE x \in S : \A y \in S \ {x} : PairLess(x, y)
         IN  <<least>> \o SortPairs(S \ {least})

\* The rows of toAddDependencies (copy_if over the declared set).
ToAddDependencies(declared, existingDependencies) ==
    SelectSeq(declared, LAMBDA dep :
        <<dep.m_packageRowId, VersionOrEmpty(dep.m_version)>> \notin existingDependencies)

\* The rows of toRemoveDependencies (for_each over the stored set); they
\* carry no version.
ToRemoveDependencies(declared, existingDependencies, manifestRowId) ==
    LET stored == SortPairs(existingDependencies)
        gone == SelectSeq(stored, LAMBDA row :
                    ~SetFind(declared, DependencyTableRow(row[1], manifestRowId, Some(row[2]))))
    IN  [i \in 1..Len(gone) |-> DependencyTableRow(gone[i][1], manifestRowId, None)]

\* UpdateDependencies that deletes every edge of the manifest and inserts the
\* declared set again.
UpdateDependenciesOn_DeleteAllThenReinsert(db, idRows, manifest, manifestRowId, failAt) ==
    LET linked == Linked[idRows, manifest, manifestRowId]
        c0 == ThrowOnMissingPackageNodes(Connection(db, failAt), linked.missingPackageNodes)
        c1 == Prepare(c0)
        c2 == IF Failed(c1) THEN c1 ELSE Write(c1)
        c3 == IF Failed(c2) THEN c2
              ELSE [c2 EXCEPT !.dependencies = {e \in @ : e.manifest # manifestRowId}]
    IN  IF Failed(c1) THEN Savepoint(db, c1, FALSE)
        ELSE Savepoint(db, Commit(InsertManifestDependencies(c3, linked.dependencies)), TRUE)

UpdateDependenciesOn(db, idRows, manifest, manifestRowId, failAt) ==
    LET linked == Linked[idRows, manifest, manifestRowId]
        c0 == ThrowOnMissingPackageNodes(Connection(db, failAt), linked.missingPackageNodes)
        c1 == Prepare(c0)
        existingDependencies ==
            GetDependenciesByManifestRowId(db.dependencies, db.versions, manifestRowId)
        toAdd == ToAddDependencies(linked.dependencies, existingDependencies)
        toRemove == ToRemoveDependencies(linked.dependencies, existingDependencies, manifestRowId)
    IN  IF Failed(c1) THEN Savepoint(db, c1, FALSE)
        ELSE Savepoint(db, Commit(RemoveDependenciesByRowIds(
                                      InsertManifestDependencies(c1, toAdd), toRemove)), TRUE)

\* What UpdateDependencies returns: a value when it does not throw.
UpdateDependenciesReturn(db, idRows, manifest, manifestRowId, failAt) ==
    IF UpdateDependenciesOn(db, idRows, manifest, manifestRowId, failAt).result = "ok"
    THEN Some(TRUE)
    ELSE None

\* RemoveDependencies whose DELETE tests the package_id column.
RemoveDependenciesOn_ByPackageId(db, manifestRowId, failAt) ==
    LET c0 == Prepare(Connection(db, failAt))
        c1 == IF Failed(c0) THEN c0 ELSE Write(c0)
        c2 == IF Failed(c1) THEN c1
              ELSE [c1 EXCEPT !.dependencies = {e \in @ : e.package_id # manifestRowId}]
    IN  Savepoint(db, Commit(c2), TRUE)

RemoveDependenciesOn(db, manifestRowId, failAt) ==
    LET c0 == Prepare(Connection(db, failAt))
        c1 == IF Failed(c0) THEN c0 ELSE Write(c0)
        c2 == IF Failed(c1) THEN c1
              ELSE [c1 EXCEPT !.dependencies = {e \in @ : e.manifest # manifestRowId}]
    IN  Savepoint(db, Commit(c2), TRUE)

\* PrepareForPackaging that drops the unique index and leaves the table.
PrepareForPackagingOn_IndexOnly(db) ==
    LET c0 == Connection(db, 0)
        c1 == IF s_DependenciesTable_Index_Name \in c0.schema THEN Write(c0)
              ELSE [c0 EXCEPT !.error = "SqlError"]
        c2 == IF Failed(c1) THEN c1 ELSE [c1 EXCEPT !.schema = @ \ {s_DependenciesTable_Index_Name}]
    IN  Savepoint(db, Commit(c2), TRUE)

PrepareForPackagingOn(db) ==
    LET c0 == Connection(db, 0)
        c1 == IF s_DependenciesTable_Index_Name \in c0.schema THEN Write(c0)
              ELSE [c0 EXCEPT !.error = "SqlError"]
        c2 == IF Failed(c1) THEN c1 ELSE [c1 EXCEPT !.schema = @ \ {s_DependenciesTable_Index_Name}]
        c3 == IF Failed(c2) THEN c2
              ELSE IF Exists(c2) THEN Write(c2) ELSE [c2 EXCEPT !.error = "SqlError"]
        \* DROP TABLE takes the rows and the remaining indexes of the table with it.
        c4 == IF Failed(c3) THEN c3 ELSE [c3 EXCEPT !.schema = {}, !.dependencies = {}]
    IN  Savepoint(db, Commit(c4), TRUE)

\* The model stops at MaxRowId.
WithinBounds(out) == \A row \in out.dependencies \cup out.versions : row.rowid <= MaxRowId

Apply(op, out) ==
    /\ WithinBounds(out)
    /\ schema' = out.schema
    /\ dependencies' = out.dependencies
    /\ versions' = out.versions
    /\ call' = IF out.result = "ok" THEN op ELSE out.result
    /\ UNCHANGED <<ids, manifests, txn, observed>>

Create == Apply("Create", CreateOn(Store))

AddDependencies(manifest, manifestRowId, failAt) ==
    Apply("AddDependencies", AddDependenciesOn(Store, ids, manifest, manifestRowId, failAt))

UpdateDependencies(manifest, manifestRowId, failAt) ==
    Apply("UpdateDependencies", UpdateDependenciesOn(Store, ids, manifest, manifestRowId, failAt))

RemoveDependencies(manifestRowId, failAt) ==
    Apply("RemoveDependencies", RemoveDependenciesOn(Store, manifestRowId, failAt))

PrepareForPackaging == Apply("PrepareForPackaging", PrepareForPackagingOn(Store))

\* A row of a referenced table is deleted by another part of the index,
\* whether or not an edge still points at it.
OutOfBand(what) ==
    /\ call' = what
    /\ UNCHANGED <<schema, dependencies, txn, observed>>

DeleteManifestRow(rowid) ==
    /\ rowid \in manifests
    /\ manifests' = manifests \ {rowid}
    /\ OutOfBand("OutOfBand")
    /\ UNCHANGED <<ids, versions>>

DeleteIdRow(row) ==
    /\ row \in ids
    /\ ids' = ids \ {row}
    /\ OutOfBand("OutOfBand")
    /\ UNCHANGED <<manifests, versions>>

DeleteVersionRow(row) ==
    /\ row \in versions
    /\ versions' = versions \ {row}
    /\ OutOfBand("OutOfBand")
    /\ UNCHANGED <<manifests, ids>>

\* ------------------------------------------------------------ specification
Init ==
    /\ schema = {}
    /\ dependencies = {}
    /\ versions = {}
    /\ ids \in {IdRows, {r \in IdRows : r.id = "P1"}}
    /\ manifests = ManifestRowIds
    /\ call = "none"
    /\ txn = None
    /\ observed = None

Next ==
    \/ Create
    \/ \E m \in Manifests, r \in ManifestRowIds, f \in FailPoints : AddDependencies(m, r, f)
    \/ \E m \in Manifests, r \in ManifestRowIds, f \in FailPoints : UpdateDependencies(m, r, f)
    \/ \E r \in ManifestRowIds, f \in FailPoints : RemoveDependencies(r, f)
    \/ PrepareForPackaging

\* The table used through its own operations only.
Spec == Init /\ [][Next]_vars

\* The table filled through its operations, then left as it is while rows of
\* the tables it references are deleted out of band.
NextOutOfBand ==
    \/ call # "OutOfBand" /\ Create
    \/ call # "OutOfBand" /\ \E m \in Manifests, r \in ManifestRowIds : AddDependencies(m, r, 0)
    \/ call # "OutOfBand" /\ \E r \in ManifestRowIds : RemoveDependencies(r, 0)
    \/ \E r \in ManifestRowIds : DeleteManifestRow(r)
    \/ \E row \in ids : DeleteIdRow(row)
    \/ \E row \in versions : DeleteVersionRow(row)

SpecOutOfBand == Init /\ [][NextOutOfBand]_vars

\* What the two reads return for a manifest row and for every package.
ReaderSnapshot(db, idRows, manifestRowId) ==
    [dependencies |-> GetDependenciesByManifestRowId(db.dependencies, db.versions, manifestRowId),
     dependents |-> [id \in PackageIdentifiers |->
                        GetDependentsById(db.dependencies, db.versions, idRows, id)]]

\* SavepointOpen for statements that commit one by one.
SavepointOpen_Autocommit(db, c) ==
    [db |-> [schema |-> c.schema, dependencies |-> c.dependencies, versions |-> c.versions],
     c |-> c]

\* A statement run while the savepoint is open: the store other connections
\* read stays as it is; the connection that opened the savepoint sees c.
SavepointOpen(db, c) == [db |-> db, c |-> c]

\* UpdateDependencies up to its first insert: the savepoint, the declared
\* and the stored set, toAddDependencies and toRemoveDependencies. A call
\* that fails here has run no statement.
BeginUpdate(manifest, manifestRowId) ==
    LET linked == Linked[ids, manifest, manifestRowId]
        c0 == ThrowOnMissingPackageNodes(Connection(Store, 0), linked.missingPackageNodes)
        c1 == Prepare(c0)
        existingDependencies ==
            GetDependenciesByManifestRowId(dependencies, versions, manifestRowId)
        whole == UpdateDependenciesOn(Store, ids, manifest, manifestRowId, 0)
    IN  /\ txn = None
        /\ IF Failed(c1)
           THEN call' = c1.error /\ txn' = txn
           ELSE /\ call' = "Savepoint"
                /\ txn' = [manifestRowId |-> manifestRowId,
                           c |-> c1,
                           toAdd |-> ToAddDependencies(linked.dependencies, existingDependencies),
                           toRemove |-> ToRemoveDependencies(linked.dependencies,
                                                             existingDependencies, manifestRowId),
                           pre |-> ReaderSnapshot(Store, ids, manifestRowId),
                           post |-> ReaderSnapshot(whole, ids, manifestRowId)]
        /\ UNCHANGED <<schema, dependencies, versions, ids, manifests, observed>>

Statement(after) ==
    /\ WithinBounds(after.c)
    /\ schema' = after.db.schema
    /\ dependencies' = after.db.dependencies
    /\ versions' = after.db.versions
    /\ UNCHANGED <<ids, manifests, call, observed>>

\* One turn of the loop of InsertManifestDependencies inside UpdateDependencies.
InsertStatement ==
    /\ txn # None
    /\ ~Failed(txn.c)
    /\ txn.toAdd # <<>>
    /\ LET after == SavepointOpen(Store, InsertLoop(txn.c, <<Head(txn.toAdd)>>))
       IN  /\ Statement(after)
           /\ txn' = [txn EXCEPT !.c = after.c, !.toAdd = Tail(@)]

\* One turn of the loop of RemoveDependenciesByRowIds inside UpdateDependencies.
DeleteStatement ==
    /\ txn # None
    /\ ~Failed(txn.c)
    /\ txn.toAdd = <<>>
    /\ txn.toRemove # <<>>
    /\ LET after == SavepointOpen(Store, DeleteLoop(txn.c, <<Head(txn.toRemove)>>))
       IN  /\ Statement(after)
           /\ txn' = [txn EXCEPT !.c = after.c, !.toRemove = Tail(@)]

\* savepoint.Commit() after the last statement, or the exception of a
\* failed statement leaving the scope.
EndUpdate ==
    /\ txn # None
    /\ Failed(txn.c) \/ (txn.toAdd = <<>> /\ txn.toRemove = <<>>)
    /\ LET out == Savepoint(Store, Commit(txn.c), TRUE)
       IN  /\ schema' = out.schema
           /\ dependencies' = out.dependencies
           /\ versions' = out.versions
           /\ call' = IF out.result = "ok" THEN "UpdateDependencies" ELSE out.result
    /\ txn' = None
    /\ observed' = None
    /\ UNCHANGED <<ids, manifests>>

\* Another connection reads the manifest being updated.
Read ==
    /\ txn # None
    /\ observed' = ReaderSnapshot(Store, ids, txn.manifestRowId)
    /\ UNCHANGED <<schema, dependencies, versions, ids, manifests, call, txn>>

InitStatements ==
    /\ schema = {}
    /\ dependencies = {}
    /\ versions = {}
    /\ ids = IdRows
    /\ manifests = ManifestRowIds
    /\ call = "none"
    /\ txn = None
    /\ observed = None

NextStatements ==
    \/ txn = None /\ Create
    \/ \E m \in Manifests, r \in ManifestRowIds : BeginUpdate(m, r)
    \/ InsertStatement
    \/ DeleteStatement
    \/ EndUpdate
    \/ Read

\* UpdateDependencies statement by statement, with a reader on another connection.
SpecStatements == InitStatements /\ [][NextStatements]_vars

\* The table used with manifests that declare the empty string as a minimum version.
NextEmptyVersion ==
    \/ Create
    \/ \E m \in ManifestsWithEmpty, r \in ManifestRowIds : AddDependencies(m, r, 0)
    \/ \E m \in ManifestsWithEmpty, r \in ManifestRowIds : UpdateDependencies(m, r, 0)
    \/ \E r \in ManifestRowIds : RemoveDependencies(r, 0)

SpecEmptyVersion == InitStatements /\ [][NextEmptyVersion]_vars

\* The table called with manifest row ids of the caller's choosing: the
\* manifest table holds row 1 only, and nothing is deleted from it.
InitAnyManifestRowId ==
    /\ schema = {}
    /\ dependencies = {}
    /\ versions = {}
    /\ ids \in {IdRows, {r \in IdRows : r.id = "P1"}}
    /\ manifests = {1}
    /\ call = "none"
    /\ txn = None
    /\ observed = None

NextAnyManifestRowId ==
    \/ Create
    \/ \E m \in Manifests, r \in ManifestRowIds : AddDependencies(m, r, 0)
    \/ \E m \in Manifests, r \in ManifestRowIds : UpdateDependencies(m, r, 0)
    \/ \E r \in ManifestRowIds : RemoveDependencies(r, 0)

SpecAnyManifestRowId == InitAnyManifestRowId /\ [][NextAnyManifestRowId]_vars

\* ------------------------------------------------------------------ claims
TableExists == s_DependenciesTable_Table_Name \in schema

EdgesOf(manifestRowId) == {e \in dependencies : e.manifest = manifestRowId}

RowIds == 1..MaxRowId

\* Every declared package has a row in the ids table.
Registered(manifest) ==
    \A i \in 1..Len(manifest) : \E row \in ids : row.id = manifest[i].Id

\* At most one declaration per package.
OnePerPackage(manifest) ==
    \A i, j \in 1..Len(manifest) : manifest[i].Id = manifest[j].Id => i = j

\* The declared set as the query is to return it: (package row, version
\* string) pairs, "" for a declaration without a minimum version.
NormalizedForm(manifest) ==
    {<<(CHOOSE row \in ids : row.id = manifest[i].Id).rowid,
       IF manifest[i].MinVersion = None THEN "" ELSE manifest[i].MinVersion[1]>> :
        i \in 1..Len(manifest)}

\* The stored edges of a manifest as (package row, version string) pairs, ""
\* for an edge without a minimum version.
StoredForm(manifestRowId) ==
    {<<e.package_id,
       IF e.min_version = None THEN ""
       ELSE (CHOOSE row \in versions : row.rowid = e.min_version[1]).version>> :
        e \in EdgesOf(manifestRowId)}

\* C1: on a manifest row without stored edges, AddDependencies of a declared
\* set with registered packages, one declaration per package, succeeds, and
\* GetDependenciesByManifestRowId then returns the normalized form of the
\* set, "" standing for a missing minimum version.
C1_AddThenQueryReturnsDeclared ==
    [][\A manifest \in Manifests, r \in ManifestRowIds :
          ( /\ TableExists
            /\ EdgesOf(r) = {}
            /\ Registered(manifest)
            /\ OnePerPackage(manifest)
            /\ AddDependencies(manifest, r, 0) )
          => /\ call' = "AddDependencies"
             /\ GetDependenciesByManifestRowId(dependencies', versions', r)
                    = NormalizedForm(manifest)]_vars

\* C2: whatever edges S are stored, UpdateDependencies of a declared set D
\* with registered packages computes to_add = D - S and to_remove = S - D,
\* succeeds, and GetDependenciesByManifestRowId then returns exactly D.
C2_UpdateThenQueryReturnsDeclared ==
    [][\A manifest \in Manifests, r \in ManifestRowIds :
          ( /\ TableExists
            /\ Registered(manifest)
            /\ OnePerPackage(manifest)
            /\ UpdateDependencies(manifest, r, 0) )
          => LET declared == Linked[ids, manifest, r].dependencies
                 existing == GetDependenciesByManifestRowId(dependencies, versions, r)
                 toAdd == ToAddDependencies(declared, existing)
                 toRemove == ToRemoveDependencies(declared, existing, r)
             IN  /\ {<<toAdd[i].m_packageRowId, VersionOrEmpty(toAdd[i].m_version)>> :
                         i \in 1..Len(toAdd)} = NormalizedForm(manifest) \ StoredForm(r)
                 /\ {toRemove[i].m_packageRowId : i \in 1..Len(toRemove)}
                        = {pair[1] : pair \in StoredForm(r) \ NormalizedForm(manifest)}
                 /\ call' = "UpdateDependencies"
                 /\ GetDependenciesByManifestRowId(dependencies', versions', r)
                        = NormalizedForm(manifest)]_vars

\* C3: the dependencies relation never holds two edges with the same
\* (manifest, package_id), whatever their min_version.
C3_OneEdgePerManifestAndPackage ==
    \A e1, e2 \in dependencies :
        (e1.manifest = e2.manifest /\ e1.package_id = e2.package_id) => e1 = e2

\* An insert was refused while a manifest holds edges on two packages.
C3_Witness ==
    /\ call = "ConstraintViolation"
    /\ \E e1, e2 \in dependencies : e1.manifest = e2.manifest /\ e1.package_id # e2.package_id

\* C4: after UpdateDependencies(M, D) has succeeded, UpdateDependencies(M, D)
\* again succeeds, adds nothing, removes nothing and leaves the store as it is.
C4_SecondUpdateChangesNothing ==
    [][\A manifest \in Manifests, r \in ManifestRowIds :
          ( /\ TableExists
            /\ Registered(manifest)
            /\ OnePerPackage(manifest)
            /\ UpdateDependencies(manifest, r, 0)
            /\ call' = "UpdateDependencies" )
          => LET again == UpdateDependenciesOn(Store', ids', manifest, r, 0)
                 declared == Linked[ids', manifest, r].dependencies
                 stored == GetDependenciesByManifestRowId(dependencies', versions', r)
             IN  /\ again.result = "ok"
                 /\ ToAddDependencies(declared, stored) = <<>>
                 /\ ToRemoveDependencies(declared, stored, r) = <<>>
                 /\ again.dependencies = dependencies'
                 /\ again.versions = versions']_vars

\* C5: AddDependencies and UpdateDependencies of a declared set with a
\* package that has no row in the ids table fail with the missing-package
\* error, which names every such declaration, and leave the store as it was.
C5_MissingPackageAbortsTheCall ==
    \A manifest \in Manifests, r \in ManifestRowIds, f \in FailPoints :
        LET unregistered == SelectSeq(manifest, LAMBDA d : \A row \in ids : row.id # d.Id)
        IN  unregistered # <<>> =>
                /\ GetAndLinkDependencies(ids, manifest, r).missingPackageNodes = unregistered
                /\ \A out \in {AddDependenciesOn(Store, ids, manifest, r, f),
                               UpdateDependenciesOn(Store, ids, manifest, r, f)} :
                       /\ out.result = "MissingPackage"
                       /\ out.schema = schema
                       /\ out.dependencies = dependencies
                       /\ out.versions = versions

\* A call has failed on a missing package while edges are stored.
C5_Witness == call = "MissingPackage" /\ dependencies # {}

\* C6: a call that ends in a storage failure or a constraint violation
\* leaves the dependencies relation and the versions table as they were.
C6_FailedCallLeavesStore ==
    [][call' \in {"StorageFailure", "ConstraintViolation"}
           => /\ dependencies' = dependencies
              /\ versions' = versions
              /\ schema' = schema]_vars

\* A call has ended in a storage failure while edges and versions are stored.
C6_Witness == call = "StorageFailure" /\ dependencies # {} /\ versions # {}

\* C7: after RemoveDependencies(M) has succeeded no edge of M is stored, and
\* none is returned by GetDependenciesByManifestRowId, GetDependentsById or
\* IsValueReferenced.
C7_RemoveLeavesNoEdgeOfManifest ==
    \A r \in ManifestRowIds, f \in FailPoints :
        LET out == RemoveDependenciesOn(Store, r, f)
        IN  out.result = "ok" =>
                /\ \A e \in out.dependencies : e.manifest # r
                /\ GetDependenciesByManifestRowId(out.dependencies, out.versions, r) = {}
                /\ \A id \in PackageIdentifiers :
                       \A pair \in DOMAIN GetDependentsById(out.dependencies, out.versions, ids, id) :
                           pair[1] # r
                /\ \A valueName \in dependenciesColumns, x \in RowIds :
                       \A answer \in IsValueReferenced(out, valueName, x) :
                           answer.rowid # None =>
                               answer.rowid[1] \notin {e.rowid : e \in EdgesOf(r)}

\* RemoveDependencies has emptied one manifest while another keeps its edges.
C7_Witness ==
    /\ call = "RemoveDependencies"
    /\ dependencies # {}
    /\ versions # {}
    /\ \E r \in ManifestRowIds : EdgesOf(r) = {}

\* Every reference of every edge finds its row; an edge without a minimum
\* version has no version reference to resolve.
AllReferencesResolve ==
    \A e \in dependencies :
        /\ e.manifest \in manifests
        /\ \E row \in ids : row.rowid = e.package_id
        /\ e.min_version # None => \E row \in versions : row.rowid = e.min_version[1]

\* C8: DependenciesTableCheckConsistency returns true on a store in which
\* every reference of every edge resolves.
C8_ConsistentStoreScansTrue ==
    (TableExists /\ AllReferencesResolve) =>
        \A log \in BOOLEAN :
            DependenciesTableCheckConsistency(Store, ids, manifests, log).result = TRUE

\* C9: DependenciesTableCheckConsistency returns false whenever an edge
\* refers to a manifest, package or version row that does not exist.
C9_DanglingStoreScansFalse ==
    ~AllReferencesResolve =>
        \A log \in BOOLEAN :
            DependenciesTableCheckConsistency(Store, ids, manifests, log).result = FALSE

\* The manifest row of an edge is gone; the edge's package and version rows exist.
C9_Witness ==
    /\ call = "OutOfBand"
    /\ \E e \in dependencies :
           /\ e.manifest \notin manifests
           /\ \E row \in ids : row.rowid = e.package_id
           /\ \E row \in versions : Some(row.rowid) = e.min_version

\* The edges that hold rowid x in the named column.
Referencing(valueName, x) ==
    {e \in dependencies :
        \/ valueName = "min_version" /\ e.min_version = <<x>>
        \/ valueName = "manifest" /\ e.manifest = x
        \/ valueName = "package_id" /\ e.package_id = x}

\* C10: on each of the three reference columns IsValueReferenced returns the
\* rowid of an edge holding the row id in that column if there is one and
\* "not referenced" if there is none; a version row is reported as
\* referenced exactly when some manifest's dependencies carry its string.
C10_ReferenceCheck ==
    TableExists =>
        /\ \A valueName \in dependenciesColumns, x \in RowIds :
               LET answers == IsValueReferenced(Store, valueName, x)
               IN  /\ answers # {}
                   /\ \A answer \in answers :
                          /\ answer.error = ""
                          /\ IF Referencing(valueName, x) = {}
                             THEN answer.rowid = None
                             ELSE /\ answer.rowid # None
                                  /\ \E e \in Referencing(valueName, x) : e.rowid = answer.rowid[1]
        /\ \A row \in versions :
               (\A answer \in IsValueReferenced(Store, "min_version", row.rowid) :
                    answer.rowid # None)
               <=> \E r \in ManifestRowIds, p \in RowIds :
                       <<p, row.version>> \in
                           GetDependenciesByManifestRowId(dependencies, versions, r)

\* After RemoveDependencies a version row is no longer referenced while an
\* edge of another manifest still is.
C10_Witness ==
    /\ call = "RemoveDependencies"
    /\ \E row \in versions :
           IsValueReferenced(Store, "min_version", row.rowid) = {[error |-> "", rowid |-> None]}
    /\ \E e \in dependencies :
           [error |-> "", rowid |-> Some(e.rowid)] \in IsValueReferenced(Store, "manifest", e.manifest)
\* C11 as stated: after any calls that succeed, whatever their arguments,
\* and with nothing deleted from the manifest, ids or versions tables,
\* every reference of every stored edge resolves.
C11_EveryReferenceResolves == AllReferencesResolve

\* C11, amended: every stored edge's package_id and, if present, min_version
\* resolve whatever the arguments; the manifest column holds the row id the
\* caller passed, so the edges a call inserts resolve their manifest when
\* the call was given the row id of an existing manifest row.
C11_ReferencesResolveForExistingManifest ==
    /\ \A e \in dependencies :
           /\ \E row \in ids : row.rowid = e.package_id
           /\ e.min_version # None => \E row \in versions : row.rowid = e.min_version[1]
    /\ \A m \in Manifests, r \in manifests :
           \A out \in {AddDependenciesOn(Store, ids, m, r, 0),
                        UpdateDependenciesOn(Store, ids, m, r, 0)} :
               \A e \in out.dependencies \ dependencies : e.manifest \in manifests

\* A call given an existing manifest row has stored an edge with a minimum
\* version and one without.
C11_Witness ==
    /\ call \in {"AddDependencies", "UpdateDependencies"}
    /\ \E e1, e2 \in dependencies :
           /\ e1.manifest \in manifests
           /\ e2.manifest \in manifests
           /\ e1.min_version # None
           /\ e2.min_version = None
\* C12: GetDependenciesByManifestRowId(M) returns one (package row, version)
\* pair for every stored edge of M and nothing else, with "" for an edge
\* that has no minimum version.
C12_QueryReturnsEveryEdgeOfManifest ==
    TableExists =>
        \A r \in ManifestRowIds :
            GetDependenciesByManifestRowId(dependencies, versions, r) = StoredForm(r)

\* The stored edges on the package with the given identifier.
EdgesOn(packageId) ==
    {e \in dependencies : \E row \in ids : row.rowid = e.package_id /\ row.id = packageId}

\* The (manifest row, version string) pair of an edge, "" without a version.
DependentPair(e) ==
    <<e.manifest,
      IF e.min_version = None THEN ""
      ELSE (CHOOSE row \in versions : row.rowid = e.min_version[1]).version>>

\* C13: GetDependentsById(id) returns exactly one (manifest row, version
\* string) pair for every stored edge on the package id, with or without a
\* minimum version, and no other pair.
C13_DependentsHasOnePairPerEdge ==
    TableExists =>
        \A id \in PackageIdentifiers :
            GetDependentsById(dependencies, versions, ids, id)
                = [pair \in {DependentPair(e) : e \in EdgesOn(id)} |->
                      Cardinality({e \in EdgesOn(id) : DependentPair(e) = pair})]

\* C14: a successful UpdateDependencies returns true if the declared set is
\* not empty and false if it is empty.
C14_UpdateReturnsWhetherDeclared ==
    [][\A manifest \in Manifests, r \in ManifestRowIds :
          (UpdateDependencies(manifest, r, 0) /\ call' = "UpdateDependencies")
          => UpdateDependenciesReturn(Store, ids, manifest, r, 0) = Some(manifest # <<>>)]_vars
\* C15: IsValueReferenced with a column name other than min_version,
\* manifest and package_id fails with the invalid-column error for every
\* row id in every state of the store, a store without the dependencies
\* table included; being a read, it changes nothing.
C15_UnknownColumnIsRefused ==
    \A valueName \in OtherColumnNames, x \in RowIds :
        IsValueReferenced(Store, valueName, x) = {[error |-> "InvalidTableColumn", rowid |-> None]}

\* The rowid column, which the table has, is asked about for the rowid of a
\* stored edge and refused.
C15_Witness ==
    \E e \in dependencies :
        \A answer \in IsValueReferenced(Store, "rowid", e.rowid) :
            answer.error = "InvalidTableColumn"
\* C16: what a reader reads of a manifest while UpdateDependencies is
\* running on it is what it would read before the update or what it would
\* read after it, never the result of some of its statements only.
C16_ReaderSeesAllOrNothing ==
    observed # None => observed \in {txn.pre, txn.post}

\* A reader has read while an update that both inserts and deletes had run
\* some of its statements and not all.
C16_Witness ==
    /\ txn # None
    /\ observed # None
    /\ txn.pre # txn.post
    /\ txn.c.dependencies # dependencies
    /\ txn.toAdd # <<>> \/ txn.toRemove # <<>>

\* C17: no insert of UpdateDependencies is run for a (manifest, package)
\* pair while an edge stored for that pair before the update is still in
\* the table as the updating connection sees it.
C17_NoInsertOnStoredPair ==
    [][InsertStatement =>
          \A e \in txn.c.dependencies \cap dependencies :
              ~(/\ e.manifest = Head(txn.toAdd).m_manifestRowId
                /\ e.package_id = Head(txn.toAdd).m_packageRowId)]_vars
\* The (package row, version string) pair of an edge in the given versions
\* table, "" without a version.
PairOf(e, versionRows) ==
    <<e.package_id,
      IF e.min_version = None THEN ""
      ELSE (CHOOSE row \in versionRows : row.rowid = e.min_version[1]).version>>

\* C18: with S the stored and D the declared set of M, UpdateDependencies(M, D)
\* deletes only edges of M that are in S - D and inserts only edges of M
\* that are in D - S; an edge of M in both S and D stays as it is, row id
\* included, and so does every edge of another manifest.
C18_UpdateWritesOnlyTheDelta ==
    \A manifest \in Manifests, r \in ManifestRowIds :
        Registered(manifest) =>
            LET out == UpdateDependenciesOn(Store, ids, manifest, r, 0)
                S == StoredForm(r)
                D == NormalizedForm(manifest)
            IN  /\ \A e \in dependencies \ out.dependencies :
                       e.manifest = r /\ PairOf(e, versions) \in S \ D
                /\ \A e \in out.dependencies \ dependencies :
                       e.manifest = r /\ PairOf(e, out.versions) \in D \ S
                /\ \A e \in dependencies :
                       (e.manifest # r \/ PairOf(e, versions) \in S \cap D)
                       => e \in out.dependencies

\* After an update, a further update is possible that keeps an edge of the
\* manifest and inserts another, and one that deletes an edge.
C18_Witness ==
    /\ call = "UpdateDependencies"
    /\ \E manifest \in Manifests, r \in ManifestRowIds :
           LET out == UpdateDependenciesOn(Store, ids, manifest, r, 0)
           IN  /\ out.result = "ok"
               /\ EdgesOf(r) \cap out.dependencies # {}
               /\ out.dependencies \ dependencies # {}
    /\ \E manifest \in Manifests, r \in ManifestRowIds :
           LET out == UpdateDependenciesOn(Store, ids, manifest, r, 0)
           IN  out.result = "ok" /\ dependencies \ out.dependencies # {}
\* The keys of a manifest row: every package row with every optional version.
KeyRows(manifestRowId) ==
    {DependencyTableRow(p, manifestRowId, v) :
        p \in RowIds, v \in {None, Some(""), Some("1.0"), Some("2.0")}}

\* Two rows are the same key of a std::set<DependencyTableRow>.
SameKey(a, b) == ~RowLess(a, b) /\ ~RowLess(b, a)

\* The stored edges of a manifest whose minimum version is the given string.
EdgesWithVersion(manifestRowId, version) ==
    {e \in EdgesOf(manifestRowId) :
        \E row \in versions : Some(row.rowid) = e.min_version /\ row.version = version}

\* C19 as stated: an absent minimum version is the same key as an absent one
\* only; (P, absent) and (P, "") are different keys when the declared set
\* is built, and when it is diffed against the stored set: a stored (P, "")
\* is to be removed and a declared (P, absent) to be added.
C19_AbsentIsNotTheEmptyString ==
    \A r \in ManifestRowIds : \A e \in EdgesWithVersion(r, "") :
        LET absent == DependencyTableRow(e.package_id, r, None)
            empty == DependencyTableRow(e.package_id, r, Some(""))
            declared == <<absent>>
            existing == GetDependenciesByManifestRowId(dependencies, versions, r)
        IN  /\ \A a, b \in KeyRows(r) : SameKey(a, b) => a.m_version = b.m_version
            /\ Len(SetEmplace(<<empty>>, absent)) = 2
            /\ ToAddDependencies(declared, existing) # <<>>
            /\ ToRemoveDependencies(declared, existing, r) # <<>>

\* C19, amended: in the comparison key an absent minimum version stands for
\* the empty string. Two rows of a manifest are the same key exactly when
\* they have the same package row and the same version string, absent read
\* as ""; so (P, absent) and (P, "") are one key when the declared set is
\* built and when it is diffed, and either differs from (P, v) for every
\* non-empty v.
C19_AbsentComparesAsTheEmptyString ==
    /\ \A r \in ManifestRowIds : \A a, b \in KeyRows(r) :
           SameKey(a, b) <=>
               /\ a.m_packageRowId = b.m_packageRowId
               /\ (IF a.m_version = None THEN "" ELSE a.m_version[1])
                      = (IF b.m_version = None THEN "" ELSE b.m_version[1])
    /\ \A r \in ManifestRowIds, m \in {<<Dependency("P1", Some(""))>>, <<Dependency("P1", None)>>} :
           /\ Len(Linked[ids, m \o <<Dependency("P1", None)>>, r].dependencies) = 1
           /\ LET declared == Linked[ids, <<Dependency("P1", None)>>, r].dependencies
                  existing == GetDependenciesByManifestRowId(dependencies, versions, r)
              IN  /\ EdgesWithVersion(r, "") # {} =>
                         /\ ToAddDependencies(declared, existing) = <<>>
                         /\ ToRemoveDependencies(declared, existing, r) = <<>>
                  /\ EdgesWithVersion(r, "1.0") # {} =>
                         /\ ToAddDependencies(declared, existing) # <<>>
                         /\ ToRemoveDependencies(declared, existing, r) # <<>>

\* An edge is stored with the empty string as its minimum version, and an
\* update that declares the same package without a minimum version has
\* succeeded on some manifest.
C19_Witness ==
    /\ call = "UpdateDependencies"
    /\ \E r \in ManifestRowIds :
           /\ EdgesWithVersion(r, "") # {}
           /\ UpdateDependenciesOn(Store, ids, <<Dependency("P1", None)>>, r, 0).result = "ok"
\* The table and the three indexes Create makes.
CatalogObjects ==
    {s_DependenciesTable_Table_Name, s_DependenciesTable_Index_Name,
     dependencyIndexByVersionId, dependencyIndexByPackageId}

\* C20: on a created store PrepareForPackaging succeeds, and after it the
\* table, its unique index and its two secondary indexes are gone, Exists
\* is false and DependenciesTableCheckConsistency is true.
C20_PackagedStoreHasNoTable ==
    /\ CatalogObjects \subseteq schema =>
           LET out == PrepareForPackagingOn(Store)
           IN  /\ out.result = "ok"
               /\ out.schema \cap CatalogObjects = {}
               /\ out.dependencies = {}
               /\ ~Exists(Connection(out, 0))
               /\ \A log \in BOOLEAN :
                      DependenciesTableCheckConsistency(out, ids, manifests, log).result = TRUE
    /\ call = "PrepareForPackaging" =>
           /\ schema \cap CatalogObjects = {}
           /\ ~Exists(Connection(Store, 0))
           /\ \A log \in BOOLEAN :
                  DependenciesTableCheckConsistency(Store, ids, manifests, log).result = TRUE

\* PrepareForPackaging has dropped a table that had held edges.
C20_Witness == call = "PrepareForPackaging" /\ versions # {} /\ schema = {}

\* The outcomes of every call AddDependencies, UpdateDependencies and
\* RemoveDependencies can make for a manifest row on the store as it is.
CallsFor(manifestRowId) ==
    {AddDependenciesOn(Store, ids, m, manifestRowId, f) : m \in Manifests, f \in FailPoints}
    \cup {UpdateDependenciesOn(Store, ids, m, manifestRowId, f) : m \in Manifests, f \in FailPoints}
    \cup {RemoveDependenciesOn(Store, manifestRowId, f) : f \in FailPoints}

\* C21: AddDependencies, UpdateDependencies and RemoveDependencies called for
\* manifest row M leave the edges of every other manifest row M' as they are,
\* and GetDependenciesByManifestRowId(M') returns the same before and after
\* the call, whether the call succeeds or fails.
C21_OtherManifestsAreUntouched ==
    \A r \in ManifestRowIds :
        \A out \in CallsFor(r) :
            \A other \in ManifestRowIds \ {r} :
                /\ {e \in out.dependencies : e.manifest = other} = EdgesOf(other)
                /\ GetDependenciesByManifestRowId(out.dependencies, out.versions, other)
                       = GetDependenciesByManifestRowId(dependencies, versions, other)

\* Another manifest has edges the query returns, and calls for this manifest
\* can insert an edge, delete an edge, and fail.
C21_Witness ==
    /\ call \in {"AddDependencies", "UpdateDependencies", "RemoveDependencies"}
    /\ \E r \in ManifestRowIds, other \in ManifestRowIds :
           /\ other # r
           /\ GetDependenciesByManifestRowId(dependencies, versions, other) # {}
           /\ \E out \in CallsFor(r) : out.result = "ok" /\ out.dependencies \ dependencies # {}
           /\ \E out \in CallsFor(r) : out.result = "ok" /\ dependencies \ out.dependencies # {}
           /\ \E out \in CallsFor(r) : out.result # "ok"

\* C22: on the same store DependenciesTableCheckConsistency returns the same
\* boolean with log = true as with log = false; without log the scan stops at
\* the first violating edge, with log it steps to and logs every one of them.
C22_LogDoesNotChangeTheResult ==
    LET quiet == DependenciesTableCheckConsistency(Store, ids, manifests, FALSE)
        loud == DependenciesTableCheckConsistency(Store, ids, manifests, TRUE)
        invalid == IF TableExists THEN InvalidRows(dependencies, versions, ids, manifests)
                   ELSE {}
    IN  /\ quiet.result = loud.result
        /\ quiet.stepped = (IF invalid = {} THEN 0 ELSE 1)
        /\ quiet.logged = {}
        /\ loud.stepped = Cardinality(invalid)
        /\ loud.logged = {dep.rowid : dep \in invalid}

\* Two edges are violating, one of them only because its manifest row is gone.
C22_Witness ==
    /\ call = "OutOfBand"
    /\ TableExists
    /\ Cardinality(InvalidRows(dependencies, versions, ids, manifests)) >= 2
    /\ \E e \in dependencies : e.manifest \notin manifests /\ e.min_version # None
====
